---- MODULE Spec2Model ----
(***************************************************************************)
(* A/B test analyzer (src/ab_testing_analyzer.py) and sample size          *)
(* calculator (src/sample_size_calculator.py).                             *)
(*                                                                         *)
(* Python floats are modelled as exact rationals [num, den] in lowest      *)
(* terms.  The three transcendental library calls are modelled by what     *)
(* they compute, to a stated resolution:                                   *)
(*   np.sqrt    -> Sqrt:    the root rounded down to 4 decimals            *)
(*   norm.cdf   -> NormCdf: the standard normal table in steps of 0.1,     *)
(*                          linearly interpolated at 2 decimals of z       *)
(*   norm.ppf   -> NormPpf: the usual 2-decimal critical values            *)
(***************************************************************************)
EXTENDS Integers, Sequences, FiniteSets, TLC

VARIABLES
    est,        \* analyzer: record of the last single-group estimator call
    run,        \* analyzer: record of the last compare_groups run of main()
    calc,       \* calculator: the SampleSizeCalculator object (its fields)
    plan,       \* calculator: the last sample-size call and what it returned
    pw,         \* calculator: the last power-analysis call and what it returned
    table,      \* calculator: the last create_sample_size_table call and its result
    loaded      \* analyzer: the last load_data_from_json call and what it returned

vars == <<est, run, calc, plan, pw, table, loaded>>

-----------------------------------------------------------------------------
(* Rational arithmetic: the float operators +, -, *, /, <, abs, int, ceil  *)

Abs(i) == IF i < 0 THEN -i ELSE i

RECURSIVE GCD(_, _)
GCD(a, b) == IF b = 0 THEN a ELSE GCD(b, a % b)

Rat(n, d) ==
    LET g == GCD(Abs(n), Abs(d))
        s == IF d < 0 THEN -1 ELSE 1
    IN  [num |-> s * (n \div g), den |-> s * (d \div g)]

FromInt(i) == [num |-> i, den |-> 1]

Zero == FromInt(0)
One == FromInt(1)

\* float('nan'): what numpy returns for 0/0 and for the root of a negative
NaN == [num |-> 0, den |-> 0]
IsNaN(x) == x.den = 0

RNeg(x) == [num |-> -x.num, den |-> x.den]

RAbs(x) == [num |-> Abs(x.num), den |-> x.den]

RAdd(x, y) ==
    IF IsNaN(x) \/ IsNaN(y) THEN NaN
    ELSE LET g == GCD(x.den, y.den)
         IN  Rat(x.num * (y.den \div g) + y.num * (x.den \div g),
                 (x.den \div g) * y.den)

RSub(x, y) == RAdd(x, RNeg(y))

RMul(x, y) ==
    IF IsNaN(x) \/ IsNaN(y) THEN NaN
    ELSE LET g1 == GCD(Abs(x.num), y.den)
             g2 == GCD(Abs(y.num), x.den)
         IN  [num |-> (x.num \div g1) * (y.num \div g2),
              den |-> (x.den \div g2) * (y.den \div g1)]

\* x / y for y # 0 (every caller guards or classifies the zero divisor)
RDiv(x, y) ==
    IF IsNaN(y) THEN NaN
    ELSE RMul(x, IF y.num < 0 THEN [num |-> -y.den, den |-> -y.num]
                              ELSE [num |-> y.den, den |-> y.num])

\* a comparison with nan is False
RLt(x, y) == ~IsNaN(x) /\ ~IsNaN(y) /\ x.num * y.den < y.num * x.den
RLe(x, y) == ~IsNaN(x) /\ ~IsNaN(y) /\ x.num * y.den <= y.num * x.den
RGt(x, y) == RLt(y, x)
RGe(x, y) == RLe(y, x)

\* Python's max(x, y) and min(x, y): y only when it compares beyond x
RMax(x, y) == IF RGt(y, x) THEN y ELSE x
RMin(x, y) == IF RLt(y, x) THEN y ELSE x

\* math.floor / np.ceil / int() (int truncates toward zero)
Floor(x) == x.num \div x.den
Ceil(x) == -((-x.num) \div x.den)
Trunc(x) == IF x.num < 0 THEN Ceil(x) ELSE Floor(x)

\* floor(n * 10^k / d) for n >= 0, d > 0, by long division
RECURSIVE LongDiv(_, _, _, _)
LongDiv(q, r, d, k) ==
    IF k = 0 THEN q
    ELSE LongDiv(10 * q + (10 * r) \div d, (10 * r) % d, d, k - 1)

ScaleFloor(x, k) == LongDiv(x.num \div x.den, x.num % x.den, x.den, k)

RECURSIVE ISqrtIn(_, _, _)
ISqrtIn(n, lo, hi) ==
    IF lo = hi THEN lo
    ELSE LET mid == (lo + hi + 1) \div 2
         IN  IF mid * mid <= n THEN ISqrtIn(n, mid, hi) ELSE ISqrtIn(n, lo, mid - 1)

\* np.sqrt(x) for x >= 0, rounded down to 4 decimals
Sqrt(x) ==
    IF IsNaN(x) \/ x.num < 0 THEN NaN
    ELSE Rat(ISqrtIn(ScaleFloor(x, 8), 0, 46340), 10000)

-----------------------------------------------------------------------------
(* scipy.stats.norm                                                        *)

\* Phi(z) * 10^6 for z = 0.0, 0.1, ..., 5.0
PhiTable ==
    << 500000, 539828, 579260, 617911, 655422, 691462, 725747, 758036, 788145,
       815940, 841345, 864334, 884930, 903200, 919243, 933193, 945201, 955435,
       964070, 971283, 977250, 982136, 986097, 989276, 991802, 993790, 995339,
       996533, 997445, 998134, 998650, 999032, 999313, 999517, 999663, 999767,
       999841, 999892, 999928, 999952, 999968, 999979, 999987, 999991, 999995,
       999997, 999998, 999999, 999999, 1000000, 1000000 >>

\* norm.cdf(z) for z >= 0
PhiPos(z) ==
    LET c == IF RGe(z, FromInt(5)) THEN 500 ELSE ScaleFloor(z, 2)
        i == c \div 10
        f == c % 10
    IN  IF c >= 500 THEN One
        ELSE Rat(PhiTable[i + 1] * (10 - f) + PhiTable[i + 2] * f, 10000000)

\* norm.cdf(z)
NormCdf(z) ==
    IF IsNaN(z) THEN NaN
    ELSE IF z.num < 0 THEN RSub(One, PhiPos(RNeg(z))) ELSE PhiPos(z)

\* norm.ppf(p) at the probabilities the programs ask for; the last three are
\* 1 - a/2 for a = 0.1/3, 0.05/3 (= 0.1/6) and 0.05/6
NormPpf(p) ==
    CASE p = Rat(39, 40) -> Rat(196, 100)
      [] p = Rat(19, 20) -> Rat(164, 100)
      [] p = Rat(9, 10)  -> Rat(128, 100)
      [] p = Rat(4, 5)   -> Rat(84, 100)
      [] p = Rat(1, 2)   -> Zero
      [] p = Rat(59, 60) -> Rat(213, 100)
      [] p = Rat(119, 120) -> Rat(239, 100)
      [] p = Rat(239, 240) -> Rat(264, 100)

\* z_critical = scipy_stats.norm.ppf(1 - alpha/2)
z_critical_of(alpha) == NormPpf(RSub(One, RDiv(alpha, FromInt(2))))

-----------------------------------------------------------------------------
(* src/ab_testing_analyzer.py: the estimators                              *)

\* A Python number: its type ("int" or "float") and its value
PyInt(i) == [py |-> "int", val |-> FromInt(i)]
PyFloat(x) == [py |-> "float", val |-> x]

\* k copies of x: [x] * k
Repeat(x, k) == [i \in 1..k |-> x]

RECURSIVE SumSeq(_)
SumSeq(s) == IF s = <<>> THEN Zero ELSE RAdd(Head(s), SumSeq(Tail(s)))

\* np.zeros(users); all_revenues[:n_conversions] = conversions
\* (numpy broadcasts a single value into a slice of any length, an empty one
\* included, and refuses every other length mismatch)
padded_revenues(users, conversions) ==
    LET n == Len(conversions)
    IN  IF users < 0 THEN [status |-> "ValueError"]
        ELSE IF n <= users
             THEN [status |-> "ok",
                   all_revenues |-> [k \in 1..users |->
                                        IF k <= n THEN conversions[k] ELSE Zero]]
        ELSE IF n = 1
             THEN [status |-> "ok", all_revenues |-> <<>>]
        ELSE [status |-> "ValueError"]

\* np.var(a, ddof=1): nan when len(a) - 1 <= 0
sample_variance(a) ==
    LET n == Len(a)
        mean == RDiv(SumSeq(a), FromInt(n))
        sq == [k \in 1..n |-> RMul(RSub(a[k], mean), RSub(a[k], mean))]
    IN  IF n <= 1 THEN NaN ELSE RDiv(SumSeq(sq), FromInt(n - 1))

\* variant of revenue_variance_of: the variance of the padded vector taken
\* without the "if n_conversions > 0" guard
revenue_variance_unguarded(users, conversions) ==
    LET padded == padded_revenues(users, conversions)
    IN  IF padded.status = "ok" THEN sample_variance(padded.all_revenues) ELSE NaN

\* "if n_conversions > 0: ... np.var(all_revenues, ddof=1) else: 0"
revenue_variance_of(users, conversions) ==
    IF Len(conversions) > 0
    THEN sample_variance(padded_revenues(users, conversions).all_revenues)
    ELSE Zero

calculate_group_stats(users, conversions, alpha) ==
    LET n_conversions == Len(conversions)
        total_revenue == IF n_conversions > 0 THEN SumSeq(conversions) ELSE Zero
        arpu == IF users > 0 THEN RDiv(total_revenue, FromInt(users)) ELSE Zero
        cvr == IF users > 0 THEN Rat(n_conversions, users) ELSE Zero
        avg_conversion_value ==
            IF n_conversions > 0 THEN RDiv(total_revenue, FromInt(n_conversions))
            ELSE Zero
        padded == padded_revenues(users, conversions)
        revenue_variance == revenue_variance_of(users, conversions)
        se == IF users > 0 THEN Sqrt(RDiv(revenue_variance, FromInt(users))) ELSE Zero
        z_critical == z_critical_of(alpha)
    IN  IF n_conversions > 0 /\ padded.status # "ok"
        THEN [status |-> "ValueError"]
        ELSE [status |-> "ok",
              users |-> users,
              conversions |-> n_conversions,
              total_revenue |-> total_revenue,
              arpu |-> arpu,
              arpu_ci_lower |-> RSub(arpu, RMul(z_critical, se)),
              arpu_ci_upper |-> RAdd(arpu, RMul(z_critical, se)),
              cvr |-> cvr,
              avg_conversion_value |-> avg_conversion_value,
              revenue_variance |-> revenue_variance,
              se |-> se]

\* if not isinstance(conversions, int) or conversions < 0: raise ValueError
conversions_rejected(conversions) ==
    conversions.py # "int" \/ RLt(conversions.val, Zero)

\* variant of rate_se: rates of one half and above treated as degenerate
rate_se_below_half(users, conversion_rate) ==
    IF users > 0 /\ RGt(conversion_rate, Zero) /\ RLt(conversion_rate, Rat(1, 2))
    THEN Sqrt(RDiv(RMul(conversion_rate, RSub(One, conversion_rate)), FromInt(users)))
    ELSE Zero

\* the binomial standard error, 0 in the degenerate cases
rate_se(users, conversion_rate) ==
    IF users > 0 /\ RGt(conversion_rate, Zero) /\ RLt(conversion_rate, One)
    THEN Sqrt(RDiv(RMul(conversion_rate, RSub(One, conversion_rate)), FromInt(users)))
    ELSE Zero

\* variant of clamp_lower: the bound left unclamped
clamp_lower_missing(rate_ci_lower) == rate_ci_lower

\* rate_ci_lower = max(0, rate_ci_lower); rate_ci_upper = min(1, rate_ci_upper)
clamp_lower(rate_ci_lower) == RMax(Zero, rate_ci_lower)
clamp_upper(rate_ci_upper) == RMin(One, rate_ci_upper)

calculate_conversion_rate_stats(users, conversions, alpha) ==
    LET conversion_rate ==
            IF users > 0 THEN RDiv(conversions.val, FromInt(users)) ELSE Zero
        se == rate_se(users, conversion_rate)
        z_critical == z_critical_of(alpha)
    IN  IF conversions_rejected(conversions)
        THEN [status |-> "ValueError"]
        ELSE [status |-> "ok",
              users |-> users,
              conversions |-> conversions.val,
              conversion_rate |-> conversion_rate,
              rate_ci_lower |-> clamp_lower(RSub(conversion_rate, RMul(z_critical, se))),
              rate_ci_upper |-> clamp_upper(RAdd(conversion_rate, RMul(z_critical, se))),
              se |-> se]

-----------------------------------------------------------------------------
(* src/ab_testing_analyzer.py: the pairwise comparator                     *)

\* f'Group {i}' for the 0-based position i (group_names defaults to these)
GroupName(i) == <<"Group", i - 1>>

\* stats_dict['group'] = ...
with_group(stats_dict, name) ==
    [f \in DOMAIN stats_dict \cup {"group"} |->
        IF f = "group" THEN name ELSE stats_dict[f]]

\* variant of combinations_from: the later position first in every pair
RECURSIVE combinations_swapped(_, _, _)
combinations_swapped(i, j, n) ==
    IF i >= n THEN <<>>
    ELSE IF j > n THEN combinations_swapped(i + 1, i + 2, n)
    ELSE <<<<j, i>>>> \o combinations_swapped(i, j + 1, n)

\* itertools.combinations(range(n), 2), as 1-based positions
RECURSIVE combinations_from(_, _, _)
combinations_from(i, j, n) ==
    IF i >= n THEN <<>>
    ELSE IF j > n THEN combinations_from(i + 1, i + 2, n)
    ELSE <<<<i, j>>>> \o combinations_from(i, j + 1, n)

combinations2(n) == combinations_from(1, 2, n)

\* n_comparisons = n_groups * (n_groups - 1) // 2
n_comparisons_of(n_groups) == (n_groups * (n_groups - 1)) \div 2

\* variant of bonferroni_alpha_of: the threshold left uncorrected
bonferroni_alpha_uncorrected(alpha, n_comparisons) == alpha

\* bonferroni_alpha = alpha / n_comparisons if n_comparisons > 0 else alpha
bonferroni_alpha_of(alpha, n_comparisons) ==
    IF n_comparisons > 0 THEN RDiv(alpha, FromInt(n_comparisons)) ELSE alpha

\* se_diff = np.sqrt(group_i['se']**2 + group_j['se']**2)
se_diff_of(se_i, se_j) == Sqrt(RAdd(RMul(se_i, se_i), RMul(se_j, se_j)))

\* variant of z_score_of: the division carried out for se_diff = 0 as well,
\* a non-zero difference giving an infinite score (10 stands for it: the
\* normal distribution function is 1 from 5 on)
z_score_unguarded(diff, se_diff) ==
    IF RGt(se_diff, Zero) THEN RDiv(diff, se_diff)
    ELSE IF diff = Zero THEN Zero
    ELSE IF RGt(diff, Zero) THEN FromInt(10) ELSE FromInt(-10)

\* z_score = diff / se_diff if se_diff > 0 else 0
z_score_of(diff, se_diff) ==
    IF RGt(se_diff, Zero) THEN RDiv(diff, se_diff) ELSE Zero

\* variant of p_value_of: abs() left out
p_value_signed(z_score) == RMul(FromInt(2), RSub(One, NormCdf(z_score)))

\* variant of p_value_of: the one-sided tail, the factor 2 left out
p_value_one_sided(z_score) == RSub(One, NormCdf(RAbs(z_score)))

\* p_value = 2 * (1 - scipy_stats.norm.cdf(abs(z_score)))
p_value_of(z_score) == RMul(FromInt(2), RSub(One, NormCdf(RAbs(z_score))))

\* significant = p_value < bonferroni_alpha
significant_of(p_value, bonferroni_alpha) == RLt(p_value, bonferroni_alpha)

\* variant of diff_z_critical: the critical value of the corrected threshold
diff_z_critical_corrected(alpha, bonferroni_alpha) == z_critical_of(bonferroni_alpha)

\* inside the pair loop: z_critical = scipy_stats.norm.ppf(1 - alpha/2), with
\* the alpha the caller passed, bonferroni_alpha being in scope
diff_z_critical(alpha, bonferroni_alpha) == z_critical_of(alpha)

\* the body of the loop over the pairs in compare_groups_arpu
arpu_comparison(group_i, group_j, alpha, bonferroni_alpha) ==
    LET arpu_diff == RSub(group_i.arpu, group_j.arpu)
        se_diff == se_diff_of(group_i.se, group_j.se)
        z_score == z_score_of(arpu_diff, se_diff)
        p_value == p_value_of(z_score)
        z_critical == diff_z_critical(alpha, bonferroni_alpha)
    IN  [Group_A |-> group_i.group,
         Group_B |-> group_j.group,
         Value_A |-> group_i.arpu,
         Value_B |-> group_j.arpu,
         Difference |-> arpu_diff,
         Diff_CI_Lower |-> RSub(arpu_diff, RMul(z_critical, se_diff)),
         Diff_CI_Upper |-> RAdd(arpu_diff, RMul(z_critical, se_diff)),
         SE_Difference |-> se_diff,
         Z_score |-> z_score,
         P_value |-> p_value,
         Significant |-> significant_of(p_value, bonferroni_alpha)]

\* the body of the loop over the pairs in compare_groups_conversion_rate
rate_comparison(group_i, group_j, alpha, bonferroni_alpha) ==
    LET rate_diff == RSub(group_i.conversion_rate, group_j.conversion_rate)
        se_diff == se_diff_of(group_i.se, group_j.se)
        z_score == z_score_of(rate_diff, se_diff)
        p_value == p_value_of(z_score)
        z_critical == diff_z_critical(alpha, bonferroni_alpha)
    IN  [Group_A |-> group_i.group,
         Group_B |-> group_j.group,
         Value_A |-> group_i.conversion_rate,
         Value_B |-> group_j.conversion_rate,
         Difference |-> rate_diff,
         Diff_CI_Lower |-> RSub(rate_diff, RMul(z_critical, se_diff)),
         Diff_CI_Upper |-> RAdd(rate_diff, RMul(z_critical, se_diff)),
         SE_Difference |-> se_diff,
         Z_score |-> z_score,
         P_value |-> p_value,
         Significant |-> significant_of(p_value, bonferroni_alpha)]

\* groups: a list of (users, conversion_revenue_list)
compare_groups_arpu(groups, alpha) ==
    LET group_data == [i \in 1..Len(groups) |->
            calculate_group_stats(groups[i][1], groups[i][2], alpha)]
        results_df == [i \in 1..Len(groups) |-> with_group(group_data[i], GroupName(i))]
        n_groups == Len(results_df)
        n_comparisons == n_comparisons_of(n_groups)
        bonferroni_alpha == bonferroni_alpha_of(alpha, n_comparisons)
        pairs == combinations2(n_groups)
    IN  IF \E i \in 1..Len(groups) : group_data[i].status # "ok"
        THEN [status |-> "ValueError"]
        ELSE [status |-> "ok",
              results_df |-> results_df,
              bonferroni_alpha |-> bonferroni_alpha,
              comparisons |-> [k \in 1..Len(pairs) |->
                  arpu_comparison(results_df[pairs[k][1]], results_df[pairs[k][2]],
                                  alpha, bonferroni_alpha)]]

\* groups: a list of (users, conversions_count)
compare_groups_conversion_rate(groups, alpha) ==
    LET group_data == [i \in 1..Len(groups) |->
            calculate_conversion_rate_stats(groups[i][1], groups[i][2], alpha)]
        results_df == [i \in 1..Len(groups) |-> with_group(group_data[i], GroupName(i))]
        n_groups == Len(results_df)
        n_comparisons == n_comparisons_of(n_groups)
        bonferroni_alpha == bonferroni_alpha_of(alpha, n_comparisons)
        pairs == combinations2(n_groups)
    IN  IF \E i \in 1..Len(groups) : group_data[i].status # "ok"
        THEN [status |-> "ValueError"]
        ELSE [status |-> "ok",
              results_df |-> results_df,
              bonferroni_alpha |-> bonferroni_alpha,
              comparisons |-> [k \in 1..Len(pairs) |->
                  rate_comparison(results_df[pairs[k][1]], results_df[pairs[k][2]],
                                  alpha, bonferroni_alpha)]]

\* variant of compare_groups: a group whose estimation raises is skipped and
\* the remaining groups are compared
compare_groups_skipping_failed(groups, alpha, analysis_type) ==
    LET estimated(g) ==
            IF analysis_type = "arpu"
            THEN calculate_group_stats(g[1], g[2], alpha).status = "ok"
            ELSE calculate_conversion_rate_stats(g[1], g[2], alpha).status = "ok"
        kept == SelectSeq(groups, estimated)
    IN  IF analysis_type = "arpu" THEN compare_groups_arpu(kept, alpha)
        ELSE compare_groups_conversion_rate(kept, alpha)

compare_groups(groups, alpha, analysis_type) ==
    IF analysis_type = "arpu" THEN compare_groups_arpu(groups, alpha)
    ELSE IF analysis_type = "conversion_rate"
         THEN compare_groups_conversion_rate(groups, alpha)
    ELSE [status |-> "ValueError"]

\* main(): "Check if there's a significant winner"
\* winners collects, for every significant row, Group A when the
\* difference is > 0 and Group B otherwise
winners_of(comparison_results) ==
    {IF RGt(comparison_results[k].Difference, Zero)
        THEN comparison_results[k].Group_A
        ELSE comparison_results[k].Group_B :
     k \in {x \in 1..Len(comparison_results) : comparison_results[x].Significant}}

conclusion_of(comparison_results) ==
    LET winners == winners_of(comparison_results)
    IN  IF \A k \in 1..Len(comparison_results) : ~comparison_results[k].Significant
        THEN [kind |-> "no_winner", winners |-> {}]
        ELSE IF Cardinality(winners) = 1
             THEN [kind |-> "winner", winners |-> winners]
        ELSE [kind |-> "multiple_winners", winners |-> winners]

-----------------------------------------------------------------------------
(* src/ab_testing_analyzer.py: load_data_from_json.  A JSON object is a    *)
(* record whose fields are the keys present; numbers are Python numbers.   *)

\* isinstance(x, int) and x >= 0
non_negative_int(x) == x.py = "int" /\ RGe(x.val, Zero)

\* isinstance(x, (int, float)) and x >= 0, for a JSON number x
non_negative_number(x) == RGe(x.val, Zero)

\* Format 1: conversions = [total_revenue / conversion_count] * conversion_count
aggregated_conversions(group_data) ==
    LET total_revenue == group_data.total_revenue
        conversion_count == group_data.conversion_count
    IN  IF ~non_negative_number(total_revenue) \/ ~non_negative_int(conversion_count)
        THEN [status |-> "ValueError"]
        ELSE IF conversion_count.val.num > 0
             THEN [status |-> "ok",
                   conversions |-> Repeat(RDiv(total_revenue.val, conversion_count.val),
                                          conversion_count.val.num)]
        ELSE [status |-> "ok", conversions |-> <<>>]

\* conversions.extend([price] * count) for every entry, in order
RECURSIVE extended(_)
extended(price_counts) ==
    IF price_counts = <<>> THEN <<>>
    ELSE Repeat(Head(price_counts).price.val, Head(price_counts).count.val.num)
             \o extended(Tail(price_counts))

\* Format 2: the price_counts list
price_count_conversions(group_data) ==
    LET price_counts == group_data.price_counts
    IN  IF \E j \in 1..Len(price_counts) :
               \/ ~non_negative_number(price_counts[j].price)
               \/ ~non_negative_int(price_counts[j].count)
        THEN [status |-> "ValueError"]
        ELSE [status |-> "ok", conversions |-> extended(price_counts)]

\* the body of the loop over data['groups']: the (users, conversions) pair
\* appended for one group, or the ValueError raised
loaded_group(group_data, analysis_type) ==
    IF "users" \notin DOMAIN group_data THEN [status |-> "ValueError"]
    ELSE IF group_data.users.py # "int" \/ RLe(group_data.users.val, Zero)
    THEN [status |-> "ValueError"]
    ELSE LET users == group_data.users.val.num
         IN  IF analysis_type = "arpu"
             THEN LET revenue ==
                          IF {"total_revenue", "conversion_count"} \subseteq DOMAIN group_data
                          THEN aggregated_conversions(group_data)
                          ELSE IF "price_counts" \in DOMAIN group_data
                          THEN price_count_conversions(group_data)
                          ELSE [status |-> "ValueError"]
                  IN  IF revenue.status # "ok" THEN [status |-> "ValueError"]
                      ELSE [status |-> "ok", group |-> <<users, revenue.conversions>>]
             ELSE IF "conversions" \notin DOMAIN group_data
                  THEN [status |-> "ValueError"]
             ELSE IF ~non_negative_int(group_data.conversions)
                  THEN [status |-> "ValueError"]
             ELSE IF RGt(group_data.conversions.val, FromInt(users))
                  THEN [status |-> "ValueError"]
             ELSE [status |-> "ok", group |-> <<users, group_data.conversions>>]

\* data: [groups |-> list of group objects, analysis_type |-> <<>> or <<t>>,
\* alpha |-> <<>> or <<a>>] (<<>>: the key is absent)
load_data_from_json(data) ==
    LET analysis_type == IF data.analysis_type = <<>> THEN "arpu"
                         ELSE data.analysis_type[1]
        each == [i \in 1..Len(data.groups) |-> loaded_group(data.groups[i], analysis_type)]
    IN  IF analysis_type \notin {"arpu", "conversion_rate"}
        THEN [status |-> "ValueError"]
        ELSE IF \E i \in 1..Len(each) : each[i].status # "ok"
        THEN [status |-> "ValueError"]
        ELSE [status |-> "ok",
              groups |-> [i \in 1..Len(each) |-> each[i].group],
              alpha |-> IF data.alpha = <<>> THEN Rat(1, 20) ELSE data.alpha[1],
              analysis_type |-> analysis_type,
              group_names |-> [i \in 1..Len(each) |-> GroupName(i)]]

-----------------------------------------------------------------------------
(* src/sample_size_calculator.py                                           *)

\* SampleSizeCalculator.__init__
SampleSizeCalculator(confidence_level, power) ==
    LET alpha == RSub(One, confidence_level)
        beta == RSub(One, power)
        z_alpha == NormPpf(RSub(One, RDiv(alpha, FromInt(2))))
        z_beta == NormPpf(RSub(One, beta))
    IN  [confidence_level |-> confidence_level,
         power |-> power,
         alpha |-> alpha,
         beta |-> beta,
         z_alpha |-> z_alpha,
         z_beta |-> z_beta,
         z_alpha_plus_beta |-> RAdd(z_alpha, z_beta)]

\* dict.update: d with the keys of extra set
updated(d, extra) ==
    [f \in DOMAIN d \cup DOMAIN extra |-> IF f \in DOMAIN extra THEN extra[f] ELSE d[f]]

\* variant of rate_inputs_rejected: an allocation_ratio of 1 let through
rate_inputs_rejected_closed(control_rate, lift_percentage, allocation_ratio) ==
    \/ ~(RLt(Zero, control_rate) /\ RLt(control_rate, One))
    \/ RLe(lift_percentage, Zero)
    \/ ~(RLt(Zero, allocation_ratio) /\ RLe(allocation_ratio, One))

\* the three guards that raise ValueError at the top of
\* calculate_conversion_rate_sample_size
rate_inputs_rejected(control_rate, lift_percentage, allocation_ratio) ==
    \/ ~(RLt(Zero, control_rate) /\ RLt(control_rate, One))
    \/ RLe(lift_percentage, Zero)
    \/ ~(RLt(Zero, allocation_ratio) /\ RLt(allocation_ratio, One))

\* total_sample_size = int(np.ceil(numerator / denominator))
total_sample_size_of(self, pooled_variance, allocation_ratio, effect) ==
    LET numerator == RMul(RMul(RMul(self.z_alpha_plus_beta, self.z_alpha_plus_beta),
                               pooled_variance),
                          RAdd(One, RDiv(One, allocation_ratio)))
        denominator == RMul(effect, effect)
    IN  Ceil(RDiv(numerator, denominator))

\* control_size = int(total_sample_size * (1 - allocation_ratio))
control_size_of(total_sample_size, allocation_ratio) ==
    Trunc(RMul(FromInt(total_sample_size), RSub(One, allocation_ratio)))

\* expected conversions = int(size * rate)
expected_conversions_of(size, rate) == Trunc(RMul(FromInt(size), rate))

calculate_conversion_rate_sample_size(self, control_rate, lift_percentage, allocation_ratio) ==
    LET treatment_rate == RMul(control_rate, RAdd(One, lift_percentage))
        pooled_rate == RDiv(RAdd(control_rate, treatment_rate), FromInt(2))
        pooled_variance == RMul(pooled_rate, RSub(One, pooled_rate))
        total_sample_size ==
            total_sample_size_of(self, pooled_variance, allocation_ratio,
                                 RSub(treatment_rate, control_rate))
        control_size == control_size_of(total_sample_size, allocation_ratio)
        treatment_size == total_sample_size - control_size
    IN  IF rate_inputs_rejected(control_rate, lift_percentage, allocation_ratio)
        THEN [status |-> "ValueError"]
        ELSE [status |-> "ok",
              test_type |-> "conversion_rate",
              control_rate |-> control_rate,
              treatment_rate |-> treatment_rate,
              lift_percentage |-> lift_percentage,
              confidence_level |-> self.confidence_level,
              power |-> self.power,
              allocation_ratio |-> allocation_ratio,
              total_sample_size |-> total_sample_size,
              control_size |-> control_size,
              treatment_size |-> treatment_size,
              expected_control_conversions |->
                  expected_conversions_of(control_size, control_rate),
              expected_treatment_conversions |->
                  expected_conversions_of(treatment_size, treatment_rate),
              minimum_detectable_effect |-> RSub(treatment_rate, control_rate)]

\* the four guards that raise ValueError at the top of calculate_arpu_sample_size
arpu_inputs_rejected(control_arpu, lift_percentage, price, allocation_ratio) ==
    \/ RLe(control_arpu, Zero)
    \/ RLe(lift_percentage, Zero)
    \/ RLe(price, Zero)
    \/ ~(RLt(Zero, allocation_ratio) /\ RLt(allocation_ratio, One))

\* "Update results for ARPU context": the keys calculate_arpu_sample_size sets
\* on the dict the rate calculation returned
arpu_context(control_arpu, treatment_arpu, price, control_conversion_rate, treatment_conversion_rate) ==
    [test_type |-> "arpu",
     control_arpu |-> control_arpu,
     treatment_arpu |-> treatment_arpu,
     price |-> price,
     control_conversion_rate |-> control_conversion_rate,
     treatment_conversion_rate |-> treatment_conversion_rate]

\* variant of conversion_rate_of_arpu: the ARPU taken as the rate, the price
\* left out
conversion_rate_of_arpu_unscaled(arpu, price) == arpu

\* control_conversion_rate = control_arpu / price (and the same for treatment)
conversion_rate_of_arpu(arpu, price) == RDiv(arpu, price)

calculate_arpu_sample_size(self, control_arpu, lift_percentage, price, allocation_ratio) ==
    LET treatment_arpu == RMul(control_arpu, RAdd(One, lift_percentage))
        control_conversion_rate == conversion_rate_of_arpu(control_arpu, price)
        treatment_conversion_rate == conversion_rate_of_arpu(treatment_arpu, price)
        conversion_results ==
            calculate_conversion_rate_sample_size(self, control_conversion_rate,
                                                  lift_percentage, allocation_ratio)
    IN  IF arpu_inputs_rejected(control_arpu, lift_percentage, price, allocation_ratio)
        THEN [status |-> "ValueError"]
        ELSE IF conversion_results.status # "ok"
             THEN conversion_results
        ELSE updated(conversion_results,
                     arpu_context(control_arpu, treatment_arpu, price,
                                  control_conversion_rate, treatment_conversion_rate))

\* power = norm.cdf((effect_size / se) - self.z_alpha), where se is a numpy
\* float: a zero se gives +-inf or nan, not an exception
power_of(self, effect_size, se) ==
    IF IsNaN(se) THEN NaN
    ELSE IF se = Zero
         THEN (IF RGt(effect_size, Zero) THEN One
               ELSE IF RLt(effect_size, Zero) THEN Zero ELSE NaN)
    ELSE NormCdf(RSub(RDiv(effect_size, se), self.z_alpha))

\* se = np.sqrt(pooled_variance * (1/n1 + 1/n2)), for n1 # 0 and n2 # 0
power_se_of(pooled_variance, n1, n2) ==
    Sqrt(RMul(pooled_variance, RAdd(Rat(1, n1), Rat(1, n2))))

\* the 'conversion_rate' branch of calculate_power_analysis
power_analysis_rate(self, control_value, lift_percentage, sample_size, allocation_ratio) ==
    LET control_rate == control_value
        treatment_rate == RMul(control_rate, RAdd(One, lift_percentage))
        pooled_rate == RDiv(RAdd(control_rate, treatment_rate), FromInt(2))
        pooled_variance == RMul(pooled_rate, RSub(One, pooled_rate))
        effect_size == RSub(treatment_rate, control_rate)
        n1 == control_size_of(sample_size, allocation_ratio)
        n2 == sample_size - n1
        se == power_se_of(pooled_variance, n1, n2)
    IN  IF n1 = 0 \/ n2 = 0
        THEN [status |-> "ZeroDivisionError"]
        ELSE [status |-> "ok",
              test_type |-> "conversion_rate",
              control_rate |-> control_rate,
              treatment_rate |-> treatment_rate,
              lift_percentage |-> lift_percentage,
              sample_size |-> sample_size,
              power |-> power_of(self, effect_size, se),
              effect_size |-> effect_size,
              standard_error |-> se]

\* price: <<x>> for the number x, <<>> for None (the argument left out)
calculate_power_analysis(self, test_type, control_value, lift_percentage, sample_size, allocation_ratio, price) ==
    IF test_type = "conversion_rate"
    THEN power_analysis_rate(self, control_value, lift_percentage, sample_size,
                             allocation_ratio)
    ELSE IF test_type = "arpu"
    THEN IF price = <<>> THEN [status |-> "ValueError"]
         ELSE IF price[1] = Zero THEN [status |-> "ZeroDivisionError"]
         ELSE LET control_arpu == control_value
                  treatment_arpu == RMul(control_arpu, RAdd(One, lift_percentage))
                  control_rate == RDiv(control_arpu, price[1])
                  conversion_results ==
                      power_analysis_rate(self, control_rate, lift_percentage,
                                          sample_size, allocation_ratio)
              IN  IF conversion_results.status # "ok" THEN conversion_results
                  ELSE updated(conversion_results,
                               [test_type |-> "arpu",
                                control_arpu |-> control_arpu,
                                treatment_arpu |-> treatment_arpu,
                                price |-> price[1]])
    ELSE [status |-> "None"]

\* calculate_arpu_sample_size as create_sample_size_table calls it, price
\* being <<x>> for the number x or <<>> for None: with None the first two
\* guards are evaluated and then "price <= 0" raises TypeError
arpu_row(self, control_value, lift, price, allocation_ratio) ==
    IF price = <<>>
    THEN (IF RLe(control_value, Zero) \/ RLe(lift, Zero)
          THEN [status |-> "ValueError"] ELSE [status |-> "TypeError"])
    ELSE calculate_arpu_sample_size(self, control_value, lift, price[1], allocation_ratio)

\* variant of lifts_iterated: the lifts taken in reverse order
lifts_iterated_reversed(lifts) == [k \in 1..Len(lifts) |-> lifts[Len(lifts) + 1 - k]]

\* "for lift in lifts": the lifts in the order of the list
lifts_iterated(lifts) == lifts

\* the exception of the first row that raises, which ends the loop
first_raising(results) ==
    LET raising == {k \in 1..Len(results) : results[k].status # "ok"}
    IN  results[CHOOSE k \in raising : \A m \in raising : k <= m]

\* variant of create_sample_size_table: the rows computed before the first
\* raising lift are returned as a table
create_sample_size_table_partial(self, test_type, control_value, lifts, allocation_ratio, price) ==
    LET results == [k \in 1..Len(lifts) |->
            IF test_type = "conversion_rate"
            THEN calculate_conversion_rate_sample_size(self, control_value, lifts[k],
                                                       allocation_ratio)
            ELSE arpu_row(self, control_value, lifts[k], price, allocation_ratio)]
        raising == {k \in 1..Len(results) : results[k].status # "ok"}
        computed == IF raising = {} THEN Len(results)
                    ELSE (CHOOSE k \in raising : \A m \in raising : k <= m) - 1
    IN  [status |-> "ok",
         test_type |-> test_type,
         control_value |-> control_value,
         lifts |-> lifts,
         confidence_level |-> self.confidence_level,
         power |-> self.power,
         allocation_ratio |-> allocation_ratio,
         price |-> price,
         results |-> SubSeq(results, 1, computed)]

create_sample_size_table(self, test_type, control_value, lifts, allocation_ratio, price) ==
    LET order == lifts_iterated(lifts)
        results == [k \in 1..Len(order) |->
            IF test_type = "conversion_rate"
            THEN calculate_conversion_rate_sample_size(self, control_value, order[k],
                                                       allocation_ratio)
            ELSE arpu_row(self, control_value, order[k], price, allocation_ratio)]
    IN  IF \E k \in 1..Len(results) : results[k].status # "ok"
        THEN [status |-> first_raising(results).status]
        ELSE [status |-> "ok",
              test_type |-> test_type,
              control_value |-> control_value,
              lifts |-> lifts,
              confidence_level |-> self.confidence_level,
              power |-> self.power,
              allocation_ratio |-> allocation_ratio,
              price |-> price,
              results |-> results]

-----------------------------------------------------------------------------
(* Inputs                                                                  *)

MaxUsers == 8
MaxRevenues == 3
MaxGroups == 3

\* significance levels passed as alpha
Alphas == {Rat(1, 20), Rat(1, 10)}

\* the conversions argument of calculate_conversion_rate_stats: ints from -1
\* to beyond users, and two floats (2.0 and 0.5)
ConversionsArgs ==
    {PyInt(c) : c \in -1..(MaxUsers + 1)} \cup {PyFloat(FromInt(2)), PyFloat(Rat(1, 2))}

\* per-user revenues
Prices == {FromInt(1), FromInt(3)}

RECURSIVE SeqsUpTo(_, _)
SeqsUpTo(S, n) ==
    IF n = 0 THEN {<<>>}
    ELSE LET shorter == SeqsUpTo(S, n - 1)
         IN  shorter \cup {Append(q, x) : q \in {t \in shorter : Len(t) = n - 1}, x \in S}

\* groups handed to compare_groups: (users, conversions)
RateGroupPool ==
    {<<u, PyInt(c)>> : u \in {8, 20}, c \in {0, 1, 8}}
        \cup {<<20, PyInt(19)>>, <<20, PyInt(-1)>>}

\* groups handed to compare_groups: (users, revenues of the converting users)
ArpuGroupPool ==
    { <<12, <<>> >>,
      <<12, Repeat(FromInt(1), 1)>>,
      <<12, Repeat(FromInt(1), 6)>>,
      <<12, Repeat(FromInt(1), 3) \o Repeat(FromInt(3), 3)>>,
      <<2, Repeat(FromInt(1), 3)>> }

ConfidenceLevels == {Rat(95, 100), Rat(90, 100)}
Powers == {Rat(80, 100), Rat(90, 100)}
ControlRates == {Zero, Rat(1, 10), Rat(1, 2), Rat(9, 10), One}
Lifts == {Rat(-1, 2), Zero, Rat(1, 2), One, FromInt(2)}
Allocations == {Zero, Rat(1, 4), Rat(1, 2), Rat(3, 4), One}
ControlArpus == {Zero, Rat(1, 10), Rat(1, 2), FromInt(2)}
PriceValues == {Zero, Rat(1, 2), One}
SampleSizes == {0, 1, 1000}

\* create_sample_size_table: at most MaxLifts lifts per table
MaxLifts == 3
TableLifts == {Zero, Rat(1, 2), One}
TableControls == {Rat(1, 10), Rat(1, 2), Rat(9, 10)}
TableAllocations == {Rat(1, 4), Rat(1, 2)}
TablePrices == {<<>>, <<Rat(1, 2)>>, <<One>>}

\* load_data_from_json: files of at most MaxJsonGroups group objects
MaxJsonGroups == 2

\* group objects of the conversion-rate format
RateJsonGroups ==
    {[users |-> PyInt(2), conversions |-> PyInt(c)] : c \in {-1, 0, 2, 3}}
        \cup {[users |-> PyInt(0), conversions |-> PyInt(0)],
              [users |-> PyFloat(FromInt(2)), conversions |-> PyInt(1)],
              [conversions |-> PyInt(1)]}

\* group objects of the aggregated ARPU format
AggregatedJsonGroups ==
    {[users |-> PyInt(2), total_revenue |-> PyInt(t[1]), conversion_count |-> PyInt(t[2])] :
        t \in {<<3, 0>>, <<6, 2>>, <<9, 3>>, <<-1, 1>>, <<6, -1>>}}

\* group objects of the price-counts ARPU format
PriceCountJsonGroups ==
    {[users |-> PyInt(2), price_counts |-> pcs] :
        pcs \in {<<>>,
                 <<[price |-> PyInt(1), count |-> PyInt(1)]>>,
                 <<[price |-> PyInt(1), count |-> PyInt(2)],
                   [price |-> PyInt(3), count |-> PyInt(1)]>>,
                 <<[price |-> PyInt(3), count |-> PyInt(-1)]>>,
                 <<[price |-> PyInt(-1), count |-> PyInt(1)]>>}}

JsonGroups == RateJsonGroups \cup AggregatedJsonGroups \cup PriceCountJsonGroups

-----------------------------------------------------------------------------
(* State machine.  A behaviour is one session: a run of the analyzer's     *)
(* main(), one call of an estimator, or a calculator object with one call  *)
(* on it, followed for a returned plan by the power analysis of that plan. *)

NoCall == [op |-> "none"]

\* one call of calculate_conversion_rate_stats
EstimateRate ==
    \E users \in -1..MaxUsers, conversions \in ConversionsArgs, alpha \in Alphas :
        /\ est = NoCall
        /\ est' = [op |-> "calculate_conversion_rate_stats",
                   users |-> users, conversions |-> conversions, alpha |-> alpha,
                   result |-> calculate_conversion_rate_stats(users, conversions, alpha)]
        /\ UNCHANGED <<run, calc, plan, pw, table, loaded>>

\* one call of calculate_group_stats
EstimateRevenue ==
    \E users \in -1..MaxUsers, conversions \in SeqsUpTo(Prices, MaxRevenues),
       alpha \in Alphas :
        /\ est = NoCall
        /\ est' = [op |-> "calculate_group_stats",
                   users |-> users, conversions |-> conversions, alpha |-> alpha,
                   result |-> calculate_group_stats(users, conversions, alpha)]
        /\ UNCHANGED <<run, calc, plan, pw, table, loaded>>

\* main() from "Perform analysis" to the conclusion.  With fewer than two
\* groups comparison_results is pd.DataFrame([]), which has no 'Significant'
\* column: main() ends with a KeyError there.
main_conclusion(result) ==
    IF result.status # "ok" THEN [kind |-> result.status, winners |-> {}]
    ELSE IF Len(result.comparisons) = 0 THEN [kind |-> "KeyError", winners |-> {}]
    ELSE conclusion_of(result.comparisons)

Analyze(groups, alpha, analysis_type) ==
    LET result == compare_groups(groups, alpha, analysis_type)
    IN  /\ run = NoCall
        /\ run' = [op |-> "main",
                   groups |-> groups, alpha |-> alpha, analysis_type |-> analysis_type,
                   result |-> result,
                   conclusion |-> main_conclusion(result)]
        /\ UNCHANGED <<est, calc, plan, pw, table, loaded>>

AnalyzeRate ==
    \E groups \in SeqsUpTo(RateGroupPool, MaxGroups), alpha \in Alphas :
        Analyze(groups, alpha, "conversion_rate")

AnalyzeArpu ==
    \E groups \in SeqsUpTo(ArpuGroupPool, MaxGroups), alpha \in Alphas :
        Analyze(groups, alpha, "arpu")

\* one call of calculate_conversion_rate_sample_size
RateSampleSize ==
    \E control_rate \in ControlRates, lift \in Lifts, allocation \in Allocations :
        /\ plan = NoCall /\ pw = NoCall /\ table = NoCall
        /\ plan' = [op |-> "calculate_conversion_rate_sample_size",
                    control |-> control_rate, lift |-> lift, allocation |-> allocation,
                    price |-> <<>>,
                    result |-> calculate_conversion_rate_sample_size(
                                   calc, control_rate, lift, allocation)]
        /\ UNCHANGED <<est, run, calc, pw, table, loaded>>

\* one call of calculate_arpu_sample_size
ArpuSampleSize ==
    \E control_arpu \in ControlArpus, lift \in Lifts, price \in PriceValues,
       allocation \in Allocations :
        /\ plan = NoCall /\ pw = NoCall /\ table = NoCall
        /\ plan' = [op |-> "calculate_arpu_sample_size",
                    control |-> control_arpu, lift |-> lift, allocation |-> allocation,
                    price |-> <<price>>,
                    result |-> calculate_arpu_sample_size(
                                   calc, control_arpu, lift, price, allocation)]
        /\ UNCHANGED <<est, run, calc, pw, table, loaded>>

\* one call of calculate_power_analysis with arguments of the caller's own
PowerAnalysis ==
    \E test_type \in {"conversion_rate", "arpu"}, control \in ControlRates,
       lift \in Lifts, sample_size \in SampleSizes, allocation \in Allocations,
       price \in {<<>>} \cup {<<x>> : x \in PriceValues} :
        /\ plan = NoCall /\ pw = NoCall /\ table = NoCall
        /\ test_type = "conversion_rate" => price = <<>>
        /\ pw' = [op |-> "calculate_power_analysis",
                  test_type |-> test_type, control |-> control, lift |-> lift,
                  sample_size |-> sample_size, allocation |-> allocation,
                  price |-> price,
                  result |-> calculate_power_analysis(calc, test_type, control, lift,
                                 sample_size, allocation, price)]
        /\ UNCHANGED <<est, run, calc, plan, table, loaded>>

\* the round trip: calculate_power_analysis on the inputs of the plan just
\* returned, with sample_size = its total_sample_size
PowerAnalysisOfPlan ==
    /\ plan.op # "none"
    /\ plan.result.status = "ok"
    /\ pw = NoCall
    /\ LET test_type == plan.result.test_type
       IN  pw' = [op |-> "calculate_power_analysis",
                  test_type |-> test_type, control |-> plan.control, lift |-> plan.lift,
                  sample_size |-> plan.result.total_sample_size,
                  allocation |-> plan.allocation, price |-> plan.price,
                  result |-> calculate_power_analysis(calc, test_type, plan.control,
                                 plan.lift, plan.result.total_sample_size,
                                 plan.allocation, plan.price)]
    /\ UNCHANGED <<est, run, calc, plan, table, loaded>>

\* one call of create_sample_size_table
CreateTable ==
    \E test_type \in {"conversion_rate", "arpu"}, control \in TableControls,
       lifts \in SeqsUpTo(TableLifts, MaxLifts), allocation \in TableAllocations,
       price \in TablePrices :
        /\ plan = NoCall /\ pw = NoCall /\ table = NoCall
        /\ test_type = "conversion_rate" => price = <<>>
        /\ table' = [op |-> "create_sample_size_table",
                     test_type |-> test_type, control |-> control, lifts |-> lifts,
                     allocation |-> allocation, price |-> price,
                     result |-> create_sample_size_table(calc, test_type, control,
                                    lifts, allocation, price)]
        /\ UNCHANGED <<est, run, calc, plan, pw, loaded>>

\* one call of load_data_from_json on a file that parses to a dict with a
\* 'groups' list
LoadJson ==
    \E groups \in SeqsUpTo(JsonGroups, MaxJsonGroups),
       analysis_type \in {<<>>, <<"arpu">>, <<"conversion_rate">>},
       alpha \in {<<>>, <<Rat(1, 10)>>} :
        LET data == [groups |-> groups, analysis_type |-> analysis_type, alpha |-> alpha]
        IN  /\ loaded = NoCall
            /\ loaded' = [op |-> "load_data_from_json", data |-> data,
                          result |-> load_data_from_json(data)]
            /\ UNCHANGED <<est, run, calc, plan, pw, table>>

InitEstimator ==
    /\ est = NoCall /\ run = NoCall /\ calc = NoCall /\ plan = NoCall /\ pw = NoCall
    /\ table = NoCall /\ loaded = NoCall

NextEstimator == EstimateRate \/ EstimateRevenue

SpecEstimator == InitEstimator /\ [][NextEstimator]_vars

NextAnalyzer == AnalyzeRate \/ AnalyzeArpu

SpecAnalyzer == InitEstimator /\ [][NextAnalyzer]_vars

NextLoader == LoadJson

SpecLoader == InitEstimator /\ [][NextLoader]_vars

InitCalculator ==
    /\ est = NoCall /\ run = NoCall /\ plan = NoCall /\ pw = NoCall
    /\ table = NoCall /\ loaded = NoCall
    /\ calc \in {SampleSizeCalculator(c, p) : c \in ConfidenceLevels, p \in Powers}

NextCalculator ==
    \/ RateSampleSize \/ ArpuSampleSize \/ PowerAnalysis \/ PowerAnalysisOfPlan
    \/ CreateTable

SpecCalculator == InitCalculator /\ [][NextCalculator]_vars

-----------------------------------------------------------------------------
(* Properties                                                              *)

\* the session's sample-size call was calculate_conversion_rate_sample_size
\* and returned a plan
RatePlanReturned ==
    /\ plan.op = "calculate_conversion_rate_sample_size"
    /\ plan.result.status = "ok"

\* the power analysis of the returned plan has been run
RoundTripDone == RatePlanReturned /\ pw.op = "calculate_power_analysis"

\* C1: round trip.  The power that calculate_power_analysis reports for the
\* inputs of a returned rate plan and sample_size = its total_sample_size is
\* at least the calculator's configured power.
C1_RoundTripReachesPower ==
    RoundTripDone =>
        /\ pw.result.status = "ok"
        /\ RGe(pw.result.power, calc.power)

\* the single-group call was calculate_conversion_rate_stats
RateStatsCalled == est.op = "calculate_conversion_rate_stats"

\* C2: calculate_conversion_rate_stats raises, and returns no statistics,
\* whenever conversions is negative, is not an int, or exceeds users
\* (stated for the calls with users > 0).
C2_BadConversionsRejected ==
    (RateStatsCalled /\ est.users > 0) =>
        ((\/ est.conversions.py # "int"
          \/ est.conversions.val.num < 0
          \/ est.conversions.val.num > est.users * est.conversions.val.den)
         => est.result.status = "ValueError")

\* main() reached its conclusion over a non-empty table of comparisons
Concluded ==
    /\ run.op = "main"
    /\ run.result.status = "ok"
    /\ Len(run.result.comparisons) > 0

\* the higher-value side of a comparison
HigherSide(c) == IF RGt(c.Value_A, c.Value_B) THEN c.Group_A ELSE c.Group_B

SignificantRows(cs) == {k \in 1..Len(cs) : cs[k].Significant}

\* the groups that are the higher-value side of every significant comparison
\* they are party to (and are party to one)
Unbeaten(cs) ==
    {g \in {cs[k].Group_A : k \in SignificantRows(cs)}
           \cup {cs[k].Group_B : k \in SignificantRows(cs)} :
        \A k \in SignificantRows(cs) :
            g \in {cs[k].Group_A, cs[k].Group_B} => HigherSide(cs[k]) = g}

\* C3: winner determination.  A group is reported as the significant winner
\* exactly when it is the only group that is the higher-value side of every
\* significant comparison it is party to; otherwise no unique winner is
\* reported.
C3_UniqueWinnerReported ==
    Concluded =>
        LET cs == run.result.comparisons
        IN  /\ (run.conclusion.kind = "winner") <=> (Cardinality(Unbeaten(cs)) = 1)
            /\ run.conclusion.kind = "winner" => run.conclusion.winners = Unbeaten(cs)

\* compare_groups returned its two tables
Compared == run.op = "main" /\ run.result.status = "ok"

\* the 1-based input position behind a default group name
PositionOf(name) == name[2] + 1

\* the point estimate of the group at input position i, from the estimator
EstimateAt(i) ==
    IF run.analysis_type = "arpu"
    THEN calculate_group_stats(run.groups[i][1], run.groups[i][2], run.alpha).arpu
    ELSE calculate_conversion_rate_stats(run.groups[i][1], run.groups[i][2],
                                         run.alpha).conversion_rate

\* C4: for n groups compare_groups returns n*(n-1)/2 pairwise results, one for
\* every position pair i < j, in lexicographic order of (i, j); Group A is the
\* group at the earlier position and the difference is estimate_i - estimate_j.
C4_PairsEnumeratedInOrder ==
    Compared =>
        LET cs == run.result.comparisons
            n == Len(run.groups)
            ia(k) == PositionOf(cs[k].Group_A)
            ib(k) == PositionOf(cs[k].Group_B)
        IN  /\ 2 * Len(cs) = n * (n - 1)
            /\ \A k \in 1..Len(cs) :
                /\ 1 <= ia(k) /\ ia(k) < ib(k) /\ ib(k) <= n
                /\ cs[k].Difference = RSub(EstimateAt(ia(k)), EstimateAt(ib(k)))
            /\ \A k \in 1..(Len(cs) - 1) :
                \/ ia(k) < ia(k + 1)
                \/ ia(k) = ia(k + 1) /\ ib(k) < ib(k + 1)

C4_ThreeGroupsCompared ==
    /\ Compared
    /\ Len(run.groups) = 3
    /\ Len(run.result.comparisons) = 3
    /\ run.result.comparisons[2].Group_A = GroupName(1)
    /\ run.result.comparisons[2].Group_B = GroupName(3)
    /\ run.result.comparisons[2].Difference # Zero

\* C5: Bonferroni.  For n >= 2 groups the threshold is alpha divided by the
\* number of pairs and a pair is significant exactly when its p-value is
\* strictly below it; for n = 1 there is no pair and the threshold is alpha.
C5_BonferroniThreshold ==
    Compared =>
        LET cs == run.result.comparisons
            n == Len(run.groups)
            pairs == (n * (n - 1)) \div 2
        IN  /\ n >= 2 =>
                /\ RMul(run.result.bonferroni_alpha, FromInt(pairs)) = run.alpha
                /\ \A k \in 1..Len(cs) :
                    cs[k].Significant <=>
                        cs[k].P_value.num * pairs * run.alpha.den
                            < run.alpha.num * cs[k].P_value.den
            /\ n = 1 => Len(cs) = 0 /\ run.result.bonferroni_alpha = run.alpha

\* three groups; one pair is below the corrected threshold and another is
\* below alpha but not below the corrected threshold
C5_CorrectionDecides ==
    /\ Compared
    /\ Len(run.groups) = 3
    /\ \E k \in 1..3 : run.result.comparisons[k].Significant
    /\ \E k \in 1..3 :
        /\ ~run.result.comparisons[k].Significant
        /\ RLt(run.result.comparisons[k].P_value, run.alpha)

\* C6: antisymmetry.  compare_groups on [A, B] and on [B, A] gives negated
\* differences and the same |z|, p-value, SE of the difference and
\* significance flag.
C6_Antisymmetric ==
    (Compared /\ Len(run.groups) = 2) =>
        LET ab == run.result.comparisons[1]
            swapped == compare_groups(<<run.groups[2], run.groups[1]>>, run.alpha,
                                      run.analysis_type)
            ba == swapped.comparisons[1]
        IN  /\ swapped.status = "ok"
            /\ ba.Difference = RNeg(ab.Difference)
            /\ RAbs(ba.Z_score) = RAbs(ab.Z_score)
            /\ ba.P_value = ab.P_value
            /\ ba.SE_Difference = ab.SE_Difference
            /\ ba.Significant = ab.Significant

C6_SignificantPair ==
    /\ Compared
    /\ Len(run.groups) = 2
    /\ RLt(run.result.comparisons[1].Difference, Zero)
    /\ run.result.comparisons[1].Significant

\* calculate_conversion_rate_stats was called with users > 0 and an int
\* 0 <= conversions <= users
ValidRateCall ==
    /\ RateStatsCalled
    /\ est.users > 0
    /\ est.conversions.py = "int"
    /\ 0 <= est.conversions.val.num
    /\ est.conversions.val.num <= est.users

\* C7: for users > 0 and 0 <= conversions <= users the result has
\* 0 <= conversion_rate <= 1 and
\* 0 <= rate_ci_lower <= conversion_rate <= rate_ci_upper <= 1.
C7_RateAndIntervalInUnitRange ==
    ValidRateCall =>
        LET r == est.result
        IN  /\ r.status = "ok"
            /\ RLe(Zero, r.conversion_rate) /\ RLe(r.conversion_rate, One)
            /\ RLe(Zero, r.rate_ci_lower)
            /\ RLe(r.rate_ci_lower, r.conversion_rate)
            /\ RLe(r.conversion_rate, r.rate_ci_upper)
            /\ RLe(r.rate_ci_upper, One)

\* a call where both clamps cut the interval
C7_BothBoundsClamped ==
    /\ ValidRateCall
    /\ RLt(Zero, est.result.se)
    /\ est.result.rate_ci_lower = Zero
    /\ est.result.rate_ci_upper = One

\* C8: in every returned rate plan control_size = floor(total * (1 - allocation)),
\* treatment_size = total - control_size, both sizes are >= 0, and the expected
\* conversions of each arm are floor(arm size * arm rate).
C8_SplitAndExpectedConversions ==
    RatePlanReturned =>
        LET r == plan.result
            a == r.allocation_ratio
            IsFloorOf(i, x) == i * x.den <= x.num /\ x.num < (i + 1) * x.den
        IN  /\ IsFloorOf(r.control_size,
                         Rat(r.total_sample_size * (a.den - a.num), a.den))
            /\ r.treatment_size = r.total_sample_size - r.control_size
            /\ r.control_size >= 0 /\ r.treatment_size >= 0
            /\ IsFloorOf(r.expected_control_conversions,
                         Rat(r.control_size * r.control_rate.num, r.control_rate.den))
            /\ IsFloorOf(r.expected_treatment_conversions,
                         Rat(r.treatment_size * r.treatment_rate.num,
                             r.treatment_rate.den))

\* strictly between 0 and 1
InOpenUnit(x) == 0 < x.num /\ x.num < x.den

\* C9: calculate_conversion_rate_sample_size raises ValueError, with no part
\* of a plan, exactly when control_rate is not in (0,1), or lift <= 0, or
\* allocation_ratio is not in (0,1); every other input returns a plan.
C9_RejectsExactlyOutOfDomain ==
    plan.op = "calculate_conversion_rate_sample_size" =>
        LET bad == \/ ~InOpenUnit(plan.control)
                   \/ plan.lift.num <= 0
                   \/ ~InOpenUnit(plan.allocation)
        IN  /\ bad => plan.result = [status |-> "ValueError"]
            /\ ~bad => /\ plan.result.status = "ok"
                       /\ "total_sample_size" \in DOMAIN plan.result

\* rejected for the lift alone
C9_RejectedForLift ==
    /\ plan.op = "calculate_conversion_rate_sample_size"
    /\ InOpenUnit(plan.control)
    /\ InOpenUnit(plan.allocation)
    /\ plan.lift = Zero
    /\ plan.result.status = "ValueError"

\* C10: in the plan calculate_arpu_sample_size returns,
\* minimum_detectable_effect is treatment_arpu - control_arpu
\* (= control_arpu * lift), in currency units.
C10_ArpuEffectInCurrency ==
    (plan.op = "calculate_arpu_sample_size" /\ plan.result.status = "ok") =>
        /\ plan.result.minimum_detectable_effect
              = RSub(plan.result.treatment_arpu, plan.result.control_arpu)
        /\ plan.result.minimum_detectable_effect = RMul(plan.control, plan.lift)

\* calculate_arpu_sample_size was called with control_arpu > 0, lift > 0,
\* price > 0 and allocation_ratio in (0,1)
ArpuCallInDomain ==
    /\ plan.op = "calculate_arpu_sample_size"
    /\ RGt(plan.control, Zero)
    /\ RGt(plan.lift, Zero)
    /\ RGt(plan.price[1], Zero)
    /\ InOpenUnit(plan.allocation)

\* the rate calculation at rate = control_arpu / price, for the session's call
EquivalentRatePlan ==
    calculate_conversion_rate_sample_size(calc, RDiv(plan.control, plan.price[1]),
                                          plan.lift, plan.allocation)

\* C11: for control_arpu > 0, lift > 0, price > 0 and allocation in (0,1)
\* calculate_arpu_sample_size returns the total, the two arm sizes and the
\* expected conversions of calculate_conversion_rate_sample_size(control_arpu /
\* price, lift, allocation), and raises whenever that calculation raises, as
\* it does whenever control_arpu >= price.
C11_ArpuPlanIsRatePlan ==
    ArpuCallInDomain =>
        LET r == EquivalentRatePlan
            a == plan.result
        IN  /\ r.status # "ok" => a.status = r.status
            /\ RGe(plan.control, plan.price[1]) => a.status = "ValueError"
            /\ r.status = "ok" =>
                /\ a.status = "ok"
                /\ a.total_sample_size = r.total_sample_size
                /\ a.control_size = r.control_size
                /\ a.treatment_size = r.treatment_size
                /\ a.expected_control_conversions = r.expected_control_conversions
                /\ a.expected_treatment_conversions = r.expected_treatment_conversions

\* an ARPU plan returned for a price other than 1
C11_ArpuPlanAtOtherPrice ==
    /\ ArpuCallInDomain
    /\ plan.result.status = "ok"
    /\ plan.price[1] # One
    /\ plan.result.total_sample_size > 0

\* the single-group call was calculate_group_stats
GroupStatsCalled == est.op = "calculate_group_stats"

\* C12: calculate_group_stats returns revenue_variance = 0, se = 0 and a
\* confidence interval collapsed onto arpu whenever users <= 1 or the revenue
\* list is empty (stated for the calls with users >= 1); for users = 1 with
\* one converting user the variance is 0, not NaN.
C12_VarianceZeroForSingleUser ==
    (GroupStatsCalled /\ est.users >= 1
        /\ (est.users <= 1 \/ est.conversions = <<>>)) =>
        /\ est.result.status = "ok"
        /\ est.result.revenue_variance = Zero
        /\ est.result.se = Zero
        /\ est.result.arpu_ci_lower = est.result.arpu
        /\ est.result.arpu_ci_upper = est.result.arpu

\* what the estimator of the run's analysis type returns for the group at
\* input position i
GroupEstimate(i) ==
    IF run.analysis_type = "arpu"
    THEN calculate_group_stats(run.groups[i][1], run.groups[i][2], run.alpha)
    ELSE calculate_conversion_rate_stats(run.groups[i][1], run.groups[i][2], run.alpha)

\* C13: compare_groups is all-or-nothing.  If the estimation of any group
\* raises, the call raises and returns neither a group table nor a pairwise
\* result, whatever the position of the failing group; otherwise it returns
\* one row per group and one result per pair.
C13_AllOrNothing ==
    run.op = "main" =>
        LET n == Len(run.groups)
            failed == \E i \in 1..n : GroupEstimate(i).status # "ok"
        IN  /\ failed => run.result = [status |-> "ValueError"]
            /\ ~failed =>
                /\ run.result.status = "ok"
                /\ Len(run.result.results_df) = n
                /\ 2 * Len(run.result.comparisons) = n * (n - 1)

\* three groups of which only the last fails its estimation: the call raises
C13_LastGroupFails ==
    /\ run.op = "main"
    /\ Len(run.groups) = 3
    /\ GroupEstimate(1).status = "ok"
    /\ GroupEstimate(2).status = "ok"
    /\ GroupEstimate(3).status # "ok"
    /\ run.result.status = "ValueError"

\* create_sample_size_table was called
TableCalled == table.op = "create_sample_size_table"

\* the single-lift calculation of the table's test type for its k-th lift
SingleLiftPlan(k) ==
    IF table.test_type = "conversion_rate"
    THEN calculate_conversion_rate_sample_size(calc, table.control, table.lifts[k],
                                               table.allocation)
    ELSE IF table.price = <<>> THEN [status |-> "TypeError"]
    ELSE calculate_arpu_sample_size(calc, table.control, table.lifts[k],
                                    table.price[1], table.allocation)

\* C14: for lifts whose single-lift calculations all return,
\* create_sample_size_table returns a results sequence as long as the list of
\* lifts whose k-th entry is the single-lift calculation for the k-th lift with
\* the same control value, allocation and price; order and duplicates are kept.
C14_TableMapsEachLift ==
    (TableCalled /\ \A k \in 1..Len(table.lifts) : SingleLiftPlan(k).status = "ok") =>
        /\ table.result.status = "ok"
        /\ Len(table.result.results) = Len(table.lifts)
        /\ table.result.lifts = table.lifts
        /\ \A k \in 1..Len(table.lifts) : table.result.results[k] = SingleLiftPlan(k)

\* a returned table of three lifts, not sorted and with a duplicate
C14_UnsortedTableWithDuplicate ==
    /\ TableCalled
    /\ table.result.status = "ok"
    /\ Len(table.lifts) = 3
    /\ RGt(table.lifts[1], table.lifts[2])
    /\ table.lifts[3] = table.lifts[1]
    /\ table.result.results[1].total_sample_size
         # table.result.results[2].total_sample_size

\* C15: for a fixed calculator, control_rate and allocation and two accepted
\* lifts l1 < l2, calculate_conversion_rate_sample_size returns
\* total_sample_size(l2) <= total_sample_size(l1).
C15_TotalNonIncreasingInLift ==
    RatePlanReturned =>
        \A l2 \in Lifts :
            LET larger == calculate_conversion_rate_sample_size(
                              calc, plan.control, l2, plan.allocation)
            IN  (RGt(l2, plan.lift) /\ larger.status = "ok") =>
                    larger.total_sample_size <= plan.result.total_sample_size

\* calculate_power_analysis was called directly, with a price where the test
\* type needs one
PowerAnalysisCalled ==
    /\ pw.op = "calculate_power_analysis"
    /\ plan = NoCall
    /\ pw.test_type = "arpu" => pw.price # <<>>

\* a parameter of the call is out of its domain: the control rate (for ARPU,
\* control / price) outside (0,1), lift <= 0, price <= 0, allocation outside
\* (0,1), or a split that leaves an arm with 0 users
PowerInputsOutOfDomain ==
    LET rate == IF pw.test_type = "arpu"
                THEN (IF pw.price[1] = Zero THEN NaN ELSE RDiv(pw.control, pw.price[1]))
                ELSE pw.control
        n1 == control_size_of(pw.sample_size, pw.allocation)
    IN  \/ IsNaN(rate) \/ ~InOpenUnit(rate)
        \/ RLe(pw.lift, Zero)
        \/ pw.test_type = "arpu" /\ RLe(pw.price[1], Zero)
        \/ ~InOpenUnit(pw.allocation)
        \/ n1 = 0 \/ pw.sample_size - n1 = 0

\* C16: calculate_power_analysis rejects out-of-domain parameters with an
\* invalid-input error: it returns no power record and no None, and does not
\* fail with a division by zero.
C16_PowerAnalysisRejectsOutOfDomain ==
    (PowerAnalysisCalled /\ PowerInputsOutOfDomain) =>
        pw.result.status = "ValueError"

\* C17: calculate_group_stats and calculate_conversion_rate_stats raise an
\* invalid-input error for users <= 0 and return no statistics record.
C17_NonPositiveUsersRejected ==
    ((GroupStatsCalled \/ RateStatsCalled) /\ est.users <= 0) =>
        est.result.status = "ValueError"

\* load_data_from_json returned its groups
Loaded == loaded.op = "load_data_from_json" /\ loaded.result.status = "ok"

\* the number of converting users of a returned group
ConvertingUsers(group) ==
    IF loaded.result.analysis_type = "arpu" THEN Len(group[2]) ELSE group[2].val.num

\* C18: every group load_data_from_json returns has conversions <= users, for
\* either analysis type and either ARPU input format.
C18_LoadedConversionsWithinUsers ==
    Loaded =>
        \A i \in 1..Len(loaded.result.groups) :
            ConvertingUsers(loaded.result.groups[i]) <= loaded.result.groups[i][1]

\* the comparison of the groups at positions i and j when they are the only
\* two groups of the analysis: the same two estimates, one comparison, so the
\* threshold is bonferroni_alpha_of(alpha, 1)
AlonePair(i, j) ==
    LET df == run.result.results_df
        alone_alpha == bonferroni_alpha_of(run.alpha, n_comparisons_of(2))
    IN  IF run.analysis_type = "arpu"
        THEN arpu_comparison(df[i], df[j], run.alpha, alone_alpha)
        ELSE rate_comparison(df[i], df[j], run.alpha, alone_alpha)

\* C19: the confidence interval of a pairwise difference is
\* difference -/+ z(1 - alpha/2) * SE of the difference with the uncorrected
\* alpha: symmetric around the difference, and with the bounds the same two
\* groups get when no other group is in the analysis; the significance flag
\* uses the Bonferroni-corrected threshold.
C19_DiffIntervalUncorrected ==
    Compared =>
        LET cs == run.result.comparisons
            z == z_critical_of(run.alpha)
        IN  \A k \in 1..Len(cs) :
                \A alone \in {AlonePair(PositionOf(cs[k].Group_A),
                                         PositionOf(cs[k].Group_B))} :
                    /\ cs[k].Diff_CI_Lower
                          = RSub(cs[k].Difference, RMul(z, cs[k].SE_Difference))
                    /\ cs[k].Diff_CI_Upper
                          = RAdd(cs[k].Difference, RMul(z, cs[k].SE_Difference))
                    /\ RSub(cs[k].Diff_CI_Upper, cs[k].Difference)
                          = RSub(cs[k].Difference, cs[k].Diff_CI_Lower)
                    /\ alone.Diff_CI_Lower = cs[k].Diff_CI_Lower
                    /\ alone.Diff_CI_Upper = cs[k].Diff_CI_Upper
                    /\ cs[k].Significant
                          <=> RLt(cs[k].P_value, run.result.bonferroni_alpha)

\* three groups with a pair that is not significant under the corrected
\* threshold while its interval, at the uncorrected alpha, excludes 0
C19_IntervalExcludesZeroNotSignificant ==
    /\ Compared
    /\ Len(run.groups) = 3
    /\ \E k \in 1..3 :
        /\ ~run.result.comparisons[k].Significant
        /\ RLt(run.result.comparisons[k].Diff_CI_Upper, Zero)

\* calculate_group_stats was called with users > 0 and no revenue
NoConversionCall == GroupStatsCalled /\ est.users > 0 /\ est.conversions = <<>>

\* C20: for users > 0 a revenue group with zero conversions is not an error:
\* calculate_group_stats returns arpu, total_revenue, revenue_variance, se,
\* avg_conversion_value, cvr and both interval bounds equal to 0.
C20_ZeroConversionGroupAllZero ==
    NoConversionCall =>
        LET r == est.result
        IN  /\ r.status = "ok"
            /\ r.conversions = 0
            /\ r.arpu = Zero
            /\ r.total_revenue = Zero
            /\ r.revenue_variance = Zero
            /\ r.se = Zero
            /\ r.avg_conversion_value = Zero
            /\ r.cvr = Zero
            /\ r.arpu_ci_lower = Zero
            /\ r.arpu_ci_upper = Zero

\* the zero-conversion call for a single user, where the padded vector has
\* one element
C20_ZeroConversionsSingleUser ==
    /\ NoConversionCall
    /\ est.users = 1
    /\ est.result.status = "ok"
    /\ est.result.users = 1

\* C21: a rate of exactly 0 or exactly 1 is a valid degenerate case: for
\* users > 0 and conversions = 0 or conversions = users,
\* calculate_conversion_rate_stats returns se = 0 and
\* rate_ci_lower = rate_ci_upper = conversion_rate; for every
\* 0 < conversions < users it returns se > 0.
C21_DegenerateRateHasZeroSe ==
    ValidRateCall =>
        LET r == est.result
            c == est.conversions.val.num
        IN  /\ r.status = "ok"
            /\ (c = 0 \/ c = est.users) =>
                   /\ r.se = Zero
                   /\ r.rate_ci_lower = r.conversion_rate
                   /\ r.rate_ci_upper = r.conversion_rate
            /\ (0 < c /\ c < est.users) => RGt(r.se, Zero)

\* every user converted: the rate is exactly 1 and the interval is the point 1
C21_AllUsersConverted ==
    /\ ValidRateCall
    /\ est.users > 1
    /\ est.conversions.val.num = est.users
    /\ est.result.conversion_rate = One
    /\ est.result.se = Zero
    /\ est.result.rate_ci_lower = One

\* create_sample_size_table was called with a list in which the single-lift
\* calculation fails for at least one lift
TableWithFailingLift ==
    /\ TableCalled
    /\ \E k \in 1..Len(table.lifts) : SingleLiftPlan(k).status # "ok"

\* C22: create_sample_size_table is all-or-nothing: if the single-lift
\* calculation fails for any lift of the list, the call raises, returns no
\* table and no partial rows, and the calculator's configuration
\* (confidence_level, power, critical values) is what its construction set.
C22_TableAllOrNothing ==
    TableWithFailingLift =>
        /\ table.result.status \in {"ValueError", "TypeError"}
        /\ DOMAIN table.result = {"status"}
        /\ calc \in {SampleSizeCalculator(c, p) : c \in ConfidenceLevels, p \in Powers}
        /\ calc = SampleSizeCalculator(calc.confidence_level, calc.power)

\* a rate table of three lifts whose first two calculations return and whose
\* last lift is 0: the call raises ValueError
C22_FailsOnLastLift ==
    /\ TableCalled
    /\ table.test_type = "conversion_rate"
    /\ Len(table.lifts) = 3
    /\ SingleLiftPlan(1).status = "ok"
    /\ SingleLiftPlan(2).status = "ok"
    /\ table.lifts[3] = Zero
    /\ table.result.status = "ValueError"

\* C23: every plan calculate_conversion_rate_sample_size returns is
\* well-formed: treatment_rate <= 1, total_sample_size >= 1, and the expected
\* conversions of each arm do not exceed that arm's size.
C23_RatePlanWellFormed ==
    RatePlanReturned =>
        LET r == plan.result
        IN  /\ RLe(r.treatment_rate, One)
            /\ r.total_sample_size >= 1
            /\ r.expected_control_conversions <= r.control_size
            /\ r.expected_treatment_conversions <= r.treatment_size

\* the difference interval of a pairwise result excludes 0
CIExcludesZero(c) == RGt(c.Diff_CI_Lower, Zero) \/ RLt(c.Diff_CI_Upper, Zero)

\* C24 as stated: whenever a pairwise result is significant its uncorrected
\* difference interval excludes 0, and an interval that excludes 0 with
\* significant = false occurs only when there are 3 or more groups.
C24_DisagreeOnlyWithManyGroups ==
    Compared =>
        \A k \in 1..Len(run.result.comparisons) :
            LET c == run.result.comparisons[k]
            IN  /\ c.Significant => CIExcludesZero(c)
                /\ (CIExcludesZero(c) /\ ~c.Significant) => Len(run.groups) >= 3

\* C24 amended: whenever a pairwise result is significant its uncorrected
\* difference interval excludes 0, and an interval that excludes 0 with
\* significant = false occurs only when there are 3 or more groups or the
\* standard error of the difference is 0.
C24_DisagreeOnlyManyGroupsOrZeroSe ==
    Compared =>
        \A k \in 1..Len(run.result.comparisons) :
            LET c == run.result.comparisons[k]
            IN  /\ c.Significant => CIExcludesZero(c)
                /\ (CIExcludesZero(c) /\ ~c.Significant) =>
                       (Len(run.groups) >= 3 \/ c.SE_Difference = Zero)

\* three groups with one significant pair and one pair that is not
\* significant although its interval excludes 0 and its standard error is
\* positive
C24_BothOutcomesInOneAnalysis ==
    /\ Compared
    /\ Len(run.groups) = 3
    /\ \E k \in 1..3 :
        /\ run.result.comparisons[k].Significant
        /\ CIExcludesZero(run.result.comparisons[k])
    /\ \E k \in 1..3 :
        /\ ~run.result.comparisons[k].Significant
        /\ CIExcludesZero(run.result.comparisons[k])
        /\ RGt(run.result.comparisons[k].SE_Difference, Zero)

\* the estimate of the group a pairwise result names
GroupOf(name) == run.result.results_df[PositionOf(name)]

\* C25: when both groups of a pair have standard error 0 the comparator sets
\* z_score = 0 and p_value = 1 and does not flag the pair significant,
\* whatever the difference; every result with significant = true has
\* diff_se > 0 and a non-zero difference.
C25_ZeroSePairNeverSignificant ==
    Compared =>
        \A k \in 1..Len(run.result.comparisons) :
            LET c == run.result.comparisons[k]
            IN  /\ (GroupOf(c.Group_A).se = Zero /\ GroupOf(c.Group_B).se = Zero) =>
                       /\ c.SE_Difference = Zero
                       /\ c.Z_score = Zero
                       /\ c.P_value = One
                       /\ ~c.Significant
                /\ c.Significant =>
                       /\ RGt(c.SE_Difference, Zero)
                       /\ c.Difference # Zero

\* a pair of rates exactly 0 and exactly 1: the difference is -1 or 1, both
\* standard errors are 0 and the pair is not significant
C25_RatesZeroAndOneCompared ==
    /\ Compared
    /\ run.analysis_type = "conversion_rate"
    /\ \E k \in 1..Len(run.result.comparisons) :
        LET c == run.result.comparisons[k]
        IN  /\ RAbs(c.Difference) = One
            /\ GroupOf(c.Group_A).se = Zero
            /\ GroupOf(c.Group_B).se = Zero
            /\ c.P_value = One
            /\ ~c.Significant

====
